---- MODULE Spec2Model ----
(***************************************************************************)
(* A model of mapset's threadSafeSet (threadsafe.go): a threadUnsafeSet    *)
(* engine guarded by a sync.RWMutex.  Every method is a short program of   *)
(* lock / engine call / unlock steps; threads interleave between steps.    *)
(* The engine is a Go map, held by reference: S[s] names the map of set    *)
(* object s and heap[r] is what map r holds.                               *)
(***************************************************************************)
EXTENDS Integers, FiniteSets, Sequences, TLC

\* ------------------------------------------------------------------ bounds
MaxElem == 2
NumAdders == 3

Elems == 1..MaxElem
SetIds == {"A", "B", "R", "Q"}
Refs == 1..8
NoRef == 0
NoProc == -1
Producer == 0

VARIABLES
    S, heap,
    readers, rblocked, writer,
    pc, op, set, o, arg, ret, snap, rref, calls,
    raced,
    itKind, itSet, itPc, itRef, itElem, itSent, itAtLock, chClosed, stopClosed,
    cons, recvd

vars ==
    << S, heap, readers, rblocked, writer,
       pc, op, set, o, arg, ret, snap, rref, calls, raced,
       itKind, itSet, itPc, itRef, itElem, itSent, itAtLock, chClosed, stopClosed,
       cons, recvd >>

lockVars == << readers, rblocked, writer >>
callVars == << op, set, o, arg >>
iterVars ==
    << itKind, itSet, itPc, itRef, itElem, itSent, itAtLock, chClosed, stopClosed,
       cons, recvd >>

Threads == DOMAIN pc

\* ------------------------------------------------- the operations' locking
\* A variant in which Pop takes the read lock.
LockKindPopShared(name) ==
    IF name \in {"Add", "Clear", "Remove"} THEN "W" ELSE "R"

\* A variant in which Add takes the read lock, as UnmarshalJSON does.
LockKindAddShared(name) ==
    IF name \in {"Clear", "Remove", "Pop"} THEN "W" ELSE "R"

\* Add, Clear, Remove and Pop call set.l.Lock(); every other method calls
\* set.l.RLock() (UnmarshalJSON too).
LockKind(name) ==
    IF name \in {"Add", "Clear", "Remove", "Pop"} THEN "W" ELSE "R"

\* The methods that take an operand and read-lock it after the receiver.
Binary ==
    {"IsSubset", "IsProperSubset", "IsSuperset", "IsProperSuperset", "Union",
     "Intersect", "Difference", "SymmetricDifference", "Equal",
     "CartesianProduct"}

\* IsSuperset and IsProperSuperset run other.IsSubset(set) and
\* other.IsProperSubset(set): the called method's receiver is the operand.
Inner(name) ==
    CASE name = "IsSuperset" -> "IsSubset"
      [] name = "IsProperSuperset" -> "IsProperSubset"
      [] OTHER -> name

\* A variant in which the superset forms lock their own receiver first.
LockedFirstReceiver(name, s, other) ==
    s

LockedFirst(name, s, other) ==
    IF name \in {"IsSuperset", "IsProperSuperset"} THEN other ELSE s

LockedSecond(name, s, other) ==
    IF name \in {"IsSuperset", "IsProperSuperset"} THEN s ELSE other

\* IsProperSubset releases with defer, so the operand's lock goes first; the
\* other binary methods call set.l.RUnlock() and then o.l.RUnlock().
OperandReleasedFirst(name) ==
    Inner(name) = "IsProperSubset"

\* Methods that build a new threadSafeSet around the engine's result.
ReturnsSet ==
    {"Union", "Intersect", "Difference", "SymmetricDifference", "Clone",
     "CartesianProduct"}

\* ---------------------------------------------------- the engine (no locks)
UnsafeAdd(x, i) ==
    [s |-> x \cup {i}, ret |-> i \notin x]

UnsafeRemove(x, i) ==
    x \ {i}

UnsafeContains(x, is) ==
    \A e \in is : e \in x

UnsafeIsSubset(x, y) ==
    \A e \in x : e \in y

UnsafeIsProperSubset(x, y) ==
    UnsafeIsSubset(x, y) /\ Cardinality(x) # Cardinality(y)

UnsafeEqual(x, y) ==
    Cardinality(x) = Cardinality(y) /\ \A e \in x : e \in y

UnsafeUnion(x, y) ==
    x \cup y

UnsafeIntersect(x, y) ==
    {e \in x : e \in y}

UnsafeDifference(x, y) ==
    {e \in x : e \notin y}

UnsafeSymmetricDifference(x, y) ==
    UnsafeUnion(UnsafeDifference(x, y), UnsafeDifference(y, x))

UnsafeCartesianProduct(x, y) ==
    {<<a, b>> : a \in x, b \in y}

\* A variant in which the engine call is made on the operand, with the
\* receiver as its argument.
UnsafeBinarySwapped(name, x, y) ==
    CASE name = "IsSubset" -> UnsafeIsSubset(y, x)
      [] name = "IsProperSubset" -> UnsafeIsProperSubset(y, x)
      [] name = "Equal" -> UnsafeEqual(y, x)
      [] name = "Union" -> UnsafeUnion(y, x)
      [] name = "Intersect" -> UnsafeIntersect(y, x)
      [] name = "Difference" -> UnsafeDifference(y, x)
      [] name = "SymmetricDifference" -> UnsafeSymmetricDifference(y, x)
      [] name = "CartesianProduct" -> UnsafeCartesianProduct(y, x)

\* What the engine call of a binary method returns on contents x and y.
UnsafeBinary(name, x, y) ==
    CASE name = "IsSubset" -> UnsafeIsSubset(x, y)
      [] name = "IsProperSubset" -> UnsafeIsProperSubset(x, y)
      [] name = "Equal" -> UnsafeEqual(x, y)
      [] name = "Union" -> UnsafeUnion(x, y)
      [] name = "Intersect" -> UnsafeIntersect(x, y)
      [] name = "Difference" -> UnsafeDifference(x, y)
      [] name = "SymmetricDifference" -> UnsafeSymmetricDifference(x, y)
      [] name = "CartesianProduct" -> UnsafeCartesianProduct(x, y)

\* ------------------------------------------------------------ the heap
\* The maps some set object, running call or live range loop still refers to.
Referenced ==
    {S[s] : s \in SetIds} \cup {rref[t] : t \in Threads} \cup {itRef}

Fresh ==
    CHOOSE r \in Refs \ Referenced : \A q \in Refs \ Referenced : r <= q

Contents(s) ==
    heap[S[s]]

\* Maps nothing refers to any more are collected.
Collect(h, SS, rr) ==
    [r \in Refs |->
        IF r \in {SS[s] : s \in SetIds} \cup {rr[t] : t \in Threads} \cup {itRef}
        THEN h[r] ELSE {}]


\* --------------------------------------------------- sync.RWMutex (field l)
\* A variant in which l is a plain mutex: a reader excludes other readers.
RLockImmediateExclusive(s) ==
    writer[s] = NoProc /\ readers[s] = 0

\* RLock is granted at once unless a writer holds the lock or has announced
\* itself (Lock waiting for the readers to leave); otherwise the caller is
\* queued until that writer's Unlock.
RLockImmediate(s) ==
    writer[s] = NoProc

\* Lock announces the writer as soon as no other writer owns the mutex.
LockAnnounce(s) ==
    writer[s] = NoProc

\* The announced writer enters once the active readers have left.
LockEnter(s) ==
    readers[s] = 0

RLock(p, s) ==
    IF RLockImmediate(s)
    THEN /\ readers' = [readers EXCEPT ![s] = @ + 1]
         /\ UNCHANGED << rblocked, writer >>
    ELSE /\ rblocked' = [rblocked EXCEPT ![s] = @ \cup {p}]
         /\ UNCHANGED << readers, writer >>

RUnlock(p, s) ==
    /\ readers' = [readers EXCEPT ![s] = @ - 1]
    /\ UNCHANGED << rblocked, writer >>

Lock(p, s) ==
    /\ LockAnnounce(s)
    /\ writer' = [writer EXCEPT ![s] = p]
    /\ UNCHANGED << readers, rblocked >>

\* Unlock lets every queued reader in before the next writer can announce.
Unlock(p, s) ==
    /\ writer' = [writer EXCEPT ![s] = NoProc]
    /\ readers' = [readers EXCEPT ![s] = @ + Cardinality(rblocked[s])]
    /\ rblocked' = [rblocked EXCEPT ![s] = {}]

\* ------------------------------------------------------- where a thread is
\* pc: idle -> lock [-> rwait | lockwait] [-> lock2 [-> rwait2]] -> body
\*     [-> body2] -> unlock [-> unlock2] -> idle
AfterFirstLock(name) ==
    IF name \in Binary THEN "lock2" ELSE "body"

FirstReleased(t) ==
    IF op[t] \in Binary /\ OperandReleasedFirst(op[t]) THEN o[t] ELSE set[t]

\* A variant in which the second RUnlock is again the receiver's.
SecondReleasedReceiver(t) ==
    set[t]

SecondReleased(t) ==
    IF OperandReleasedFirst(op[t]) THEN set[t] ELSE o[t]

HoldsAsReceiver(t, s) ==
    /\ set[t] = s
    /\ \/ pc[t] \in {"lock2", "rwait2", "body", "body2", "unlock"}
       \/ pc[t] \in {"cb", "cbwait", "cbbody", "cardheld"}
       \/ pc[t] = "rwait" /\ t \notin rblocked[s]
       \/ pc[t] = "unlock2" /\ OperandReleasedFirst(op[t])

HoldsAsOperand(t, s) ==
    /\ op[t] \in Binary
    /\ o[t] = s
    /\ \/ pc[t] \in {"body", "body2"}
       \/ pc[t] = "rwait2" /\ t \notin rblocked[s]
       \/ pc[t] = "unlock"
       \/ pc[t] = "unlock2" /\ ~OperandReleasedFirst(op[t])

\* Thread t is between RLock and RUnlock of s.
InRead(t, s) ==
    /\ pc[t] # "idle"
    /\ LockKind(op[t]) = "R"
    /\ (HoldsAsReceiver(t, s) \/ HoldsAsOperand(t, s))

\* Thread t is between Lock and Unlock of s.
InWrite(t, s) ==
    /\ LockKind(op[t]) = "W"
    /\ set[t] = s
    /\ pc[t] \in {"body", "body2", "unlock"}

\* The producer task of Iter / Iterator is between RLock and RUnlock of s.
ProducerIn(s) ==
    /\ itSet = s
    /\ \/ itPc \in {"range", "send", "close", "runlock"}
       \/ itPc = "rwait" /\ Producer \notin rblocked[s]


\* What a call has returned: nothing yet, or the value v.
NoResult ==
    << >>

Returned(v) ==
    << v >>

\* ------------------------------------------------------------ the calls
\* A thread (one goroutine making one call) enters a method on existing set
\* objects.
Call(t, name, s, other, a) ==
    /\ pc[t] = "idle"
    /\ calls[t] = 0
    /\ S[s] # NoRef
    /\ S[other] # NoRef
    /\ op' = [op EXCEPT ![t] = name]
    /\ set' = [set EXCEPT ![t] = LockedFirst(name, s, other)]
    /\ o' = [o EXCEPT ![t] = LockedSecond(name, s, other)]
    /\ arg' = [arg EXCEPT ![t] = a]
    /\ pc' = [pc EXCEPT ![t] = "lock"]
    /\ ret' = [ret EXCEPT ![t] = NoResult]
    /\ snap' = [snap EXCEPT ![t] = {}]
    /\ rref' = [rref EXCEPT ![t] = NoRef]
    /\ heap' = Collect(heap, S, rref')
    /\ UNCHANGED << S, lockVars, calls, raced, iterVars >>

Add(t, s, i) == Call(t, "Add", s, s, i)
Remove(t, s, i) == Call(t, "Remove", s, s, i)
Clear(t, s) == Call(t, "Clear", s, s, 0)
Pop(t, s) == Call(t, "Pop", s, s, 0)
Contains(t, s, is) == Call(t, "Contains", s, s, is)
CardinalityOf(t, s) == Call(t, "Cardinality", s, s, 0)
Clone(t, s) == Call(t, "Clone", s, s, 0)
MarshalJSON(t, s) == Call(t, "MarshalJSON", s, s, 0)
UnmarshalJSON(t, s, p) == Call(t, "UnmarshalJSON", s, s, p)
IsSubset(t, s, other) == Call(t, "IsSubset", s, other, 0)
IsProperSubset(t, s, other) == Call(t, "IsProperSubset", s, other, 0)
IsSuperset(t, s, other) == Call(t, "IsSuperset", s, other, 0)
IsProperSuperset(t, s, other) == Call(t, "IsProperSuperset", s, other, 0)
Union(t, s, other) == Call(t, "Union", s, other, 0)
Intersect(t, s, other) == Call(t, "Intersect", s, other, 0)
Difference(t, s, other) == Call(t, "Difference", s, other, 0)
SymmetricDifference(t, s, other) == Call(t, "SymmetricDifference", s, other, 0)
Equal(t, s, other) == Call(t, "Equal", s, other, 0)
CartesianProduct(t, s, other) == Call(t, "CartesianProduct", s, other, 0)

\* ------------------------------------------------- acquiring the lock(s)
\* set.l.Lock(): the writer announces itself, then waits for the readers.
LockReceiver(t) ==
    /\ pc[t] = "lock"
    /\ LockKind(op[t]) = "W"
    /\ Lock(t, set[t])
    /\ pc' = [pc EXCEPT ![t] = "lockwait"]
    /\ UNCHANGED << S, heap, callVars, ret, snap, rref, calls, raced, iterVars >>

LockEntered(t) ==
    /\ pc[t] = "lockwait"
    /\ LockEnter(set[t])
    /\ pc' = [pc EXCEPT ![t] = "body"]
    /\ UNCHANGED << S, heap, lockVars, callVars, ret, snap, rref, calls, raced,
                    iterVars >>

\* set.l.RLock()
RLockReceiver(t) ==
    /\ pc[t] = "lock"
    /\ LockKind(op[t]) = "R"
    /\ RLock(t, set[t])
    /\ pc' = [pc EXCEPT ![t] =
                IF RLockImmediate(set[t]) THEN AfterFirstLock(op[t]) ELSE "rwait"]
    /\ UNCHANGED << S, heap, callVars, ret, snap, rref, calls, raced, iterVars >>

RLockReceiverWoken(t) ==
    /\ pc[t] = "rwait"
    /\ t \notin rblocked[set[t]]
    /\ pc' = [pc EXCEPT ![t] = AfterFirstLock(op[t])]
    /\ UNCHANGED << S, heap, lockVars, callVars, ret, snap, rref, calls, raced,
                    iterVars >>

\* o.l.RLock()
RLockOperand(t) ==
    /\ pc[t] = "lock2"
    /\ RLock(t, o[t])
    /\ pc' = [pc EXCEPT ![t] = IF RLockImmediate(o[t]) THEN "body" ELSE "rwait2"]
    /\ UNCHANGED << S, heap, callVars, ret, snap, rref, calls, raced, iterVars >>

RLockOperandWoken(t) ==
    /\ pc[t] = "rwait2"
    /\ t \notin rblocked[o[t]]
    /\ pc' = [pc EXCEPT ![t] = "body"]
    /\ UNCHANGED << S, heap, lockVars, callVars, ret, snap, rref, calls, raced,
                    iterVars >>


\* --------------------------------------------------- inside the lock(s)
Finished(t) ==
    /\ pc' = [pc EXCEPT ![t] = "idle"]
    /\ calls' = [calls EXCEPT ![t] = @ + 1]

\* Every engine call starts by reading the receiver's map.
EngineRead(t) ==
    /\ pc[t] = "body"
    /\ pc' = [pc EXCEPT ![t] = "body2"]
    /\ snap' = [snap EXCEPT ![t] = Contents(set[t])]
    /\ UNCHANGED << S, heap, lockVars, callVars, ret, rref, calls, raced, iterVars >>

\* ret := set.S.Add(i)
AddBody(t) ==
    /\ pc[t] = "body2"
    /\ op[t] = "Add"
    /\ pc' = [pc EXCEPT ![t] = "unlock"]
    /\ heap' = [heap EXCEPT ![S[set[t]]] = UnsafeAdd(snap[t], arg[t]).s]
    /\ ret' = [ret EXCEPT ![t] = Returned(UnsafeAdd(snap[t], arg[t]).ret)]
    /\ UNCHANGED << S, lockVars, callVars, snap, rref, calls, raced, iterVars >>

\* delete(set.S, i)
RemoveBody(t) ==
    /\ pc[t] = "body2"
    /\ op[t] = "Remove"
    /\ pc' = [pc EXCEPT ![t] = "unlock"]
    /\ heap' = [heap EXCEPT ![S[set[t]]] = UnsafeRemove(snap[t], arg[t])]
    /\ UNCHANGED << S, lockVars, callVars, ret, snap, rref, calls, raced, iterVars >>

\* set.S = newThreadUnsafeSet(): the set object gets a new, empty map.
ClearBody(t) ==
    /\ pc[t] = "body2"
    /\ op[t] = "Clear"
    /\ Refs \ Referenced # {}
    /\ pc' = [pc EXCEPT ![t] = "unlock"]
    /\ S' = [S EXCEPT ![set[t]] = Fresh]
    /\ heap' = Collect([heap EXCEPT ![Fresh] = {}], S', rref)
    /\ UNCHANGED << lockVars, callVars, ret, snap, rref, calls, raced, iterVars >>

\* return set.S.Pop(): some element is removed and returned, nil when empty.
PopBody(t) ==
    /\ pc[t] = "body2"
    /\ op[t] = "Pop"
    /\ pc' = [pc EXCEPT ![t] = "unlock"]
    /\ IF snap[t] = {}
       THEN /\ ret' = [ret EXCEPT ![t] = Returned(0)]
            /\ heap' = heap
       ELSE \E e \in snap[t] :
              /\ ret' = [ret EXCEPT ![t] = Returned(e)]
              /\ heap' = [heap EXCEPT ![S[set[t]]] = snap[t] \ {e}]
    /\ UNCHANGED << S, lockVars, callVars, snap, rref, calls, raced, iterVars >>

\* Contains, Cardinality and MarshalJSON return what the engine says.
ReadResult(name, x, a) ==
    CASE name = "Contains" -> UnsafeContains(x, a)
      [] name = "Cardinality" -> Cardinality(x)
      [] name = "MarshalJSON" -> x

ReadBody(t) ==
    /\ pc[t] = "body2"
    /\ op[t] \in {"Contains", "Cardinality", "MarshalJSON"}
    /\ pc' = [pc EXCEPT ![t] = "unlock"]
    /\ ret' = [ret EXCEPT ![t] = Returned(ReadResult(op[t], snap[t], arg[t]))]
    /\ UNCHANGED << S, heap, lockVars, callVars, snap, rref, calls, raced, iterVars >>

\* A variant in which the new set object wraps the receiver's own map.
ResultEngineAliased(name, recvRef, fresh) ==
    recvRef

\* ret := &threadSafeSet{S: *unsafeUnion}: the new set object holds the map
\* the engine built, not the receiver's.
ResultEngine(name, recvRef, fresh) ==
    fresh

\* Union, Intersect, Difference, SymmetricDifference, CartesianProduct, Equal,
\* IsSubset, IsProperSubset: the engine reads the operand's map as well.
BinaryBody(t) ==
    /\ pc[t] = "body2"
    /\ op[t] \in Binary
    /\ pc' = [pc EXCEPT ![t] = "unlock"]
    /\ LET res == UnsafeBinary(Inner(op[t]), snap[t], Contents(o[t]))
       IN  /\ ret' = [ret EXCEPT ![t] = Returned(res)]
           /\ IF op[t] \in ReturnsSet
              THEN /\ Refs \ Referenced # {}
                   /\ rref' = [rref EXCEPT ![t] =
                                 ResultEngine(op[t], S[set[t]], Fresh)]
                   /\ heap' = Collect([heap EXCEPT ![Fresh] = res], S, rref')
              ELSE UNCHANGED << rref, heap >>
    /\ UNCHANGED << S, lockVars, callVars, snap, calls, raced, iterVars >>

\* unsafeClone := set.S.Clone(); ret := &threadSafeSet{S: *unsafeClone}
CloneBody(t) ==
    /\ pc[t] = "body2"
    /\ op[t] = "Clone"
    /\ Refs \ Referenced # {}
    /\ pc' = [pc EXCEPT ![t] = "unlock"]
    /\ ret' = [ret EXCEPT ![t] = Returned(snap[t])]
    /\ rref' = [rref EXCEPT ![t] = ResultEngine(op[t], S[set[t]], Fresh)]
    /\ heap' = Collect([heap EXCEPT ![Fresh] = snap[t]], S, rref')
    /\ UNCHANGED << S, lockVars, callVars, snap, calls, raced, iterVars >>

\* Some other task is inside a critical section of s.
OthersInside(t, s) ==
    \/ \E u \in Threads \ {t} : InRead(u, s) \/ InWrite(u, s)
    \/ ProducerIn(s)

\* err := set.S.UnmarshalJSON(p), under the READ lock: the receiver's contents
\* become the payload's elements.  With another task inside the same lock the
\* write races with it, and the map may end with any part of either.
UnmarshalBody(t) ==
    /\ pc[t] = "body2"
    /\ op[t] = "UnmarshalJSON"
    /\ pc' = [pc EXCEPT ![t] = "unlock"]
    /\ IF OthersInside(t, set[t])
       THEN /\ raced' = TRUE
            /\ \E x \in SUBSET (Contents(set[t]) \cup arg[t]) :
                 heap' = [heap EXCEPT ![S[set[t]]] = x]
       ELSE /\ raced' = raced
            /\ heap' = [heap EXCEPT ![S[set[t]]] = arg[t]]
    /\ UNCHANGED << S, lockVars, callVars, ret, snap, rref, calls, iterVars >>

\* ------------------------------------------------- releasing the lock(s)
\* set.l.Unlock()
UnlockReceiver(t) ==
    /\ pc[t] = "unlock"
    /\ LockKind(op[t]) = "W"
    /\ Unlock(t, set[t])
    /\ Finished(t)
    /\ UNCHANGED << S, heap, callVars, ret, snap, rref, raced, iterVars >>

\* The first RUnlock; a method with one lock returns after it.
RUnlockFirst(t) ==
    /\ pc[t] = "unlock"
    /\ LockKind(op[t]) = "R"
    /\ RUnlock(t, FirstReleased(t))
    /\ IF op[t] \in Binary
       THEN pc' = [pc EXCEPT ![t] = "unlock2"] /\ calls' = calls
       ELSE Finished(t)
    /\ UNCHANGED << S, heap, callVars, ret, snap, rref, raced, iterVars >>

\* The second RUnlock of a binary method, which then returns.
RUnlockSecond(t) ==
    /\ pc[t] = "unlock2"
    /\ RUnlock(t, SecondReleased(t))
    /\ Finished(t)
    /\ UNCHANGED << S, heap, callVars, ret, snap, rref, raced, iterVars >>

\* The caller keeps the set a call returned: it becomes set object R.
Publish(t) ==
    /\ pc[t] = "idle"
    /\ rref[t] # NoRef
    /\ S["R"] = NoRef
    /\ S' = [S EXCEPT !["R"] = rref[t]]
    /\ rref' = [rref EXCEPT ![t] = NoRef]
    /\ UNCHANGED << heap, lockVars, pc, callVars, ret, snap, calls, raced, iterVars >>


\* ------------------------------------------------- Iter and Iterator
\* Iter(): ch := make(chan interface{}); go func() {...}(); return ch.  The
\* caller becomes the consumer of the (unbuffered) channel.
Iter(s) ==
    /\ itKind = "none"
    /\ S[s] # NoRef
    /\ itKind' = "Iter"
    /\ itSet' = s
    /\ itPc' = "start"
    /\ cons' = "receiving"
    /\ UNCHANGED << S, heap, lockVars, pc, callVars, ret, snap, rref, calls, raced,
                    itRef, itElem, itSent, itAtLock, chClosed, stopClosed, recvd >>

\* Iterator(): the same with a stop channel beside the element channel.
Iterator(s) ==
    /\ itKind = "none"
    /\ S[s] # NoRef
    /\ itKind' = "Iterator"
    /\ itSet' = s
    /\ itPc' = "start"
    /\ cons' = "receiving"
    /\ UNCHANGED << S, heap, lockVars, pc, callVars, ret, snap, rref, calls, raced,
                    itRef, itElem, itSent, itAtLock, chClosed, stopClosed, recvd >>

\* The range loop starts on the map the set holds once the lock is taken.
RangeStarts ==
    /\ itRef' = S[itSet]
    /\ itAtLock' = Contents(itSet)

\* The producer task: set.l.RLock()
ProducerRLock ==
    /\ itPc = "start"
    /\ RLock(Producer, itSet)
    /\ IF RLockImmediate(itSet)
       THEN itPc' = "range" /\ RangeStarts
       ELSE itPc' = "rwait" /\ UNCHANGED << itRef, itAtLock >>
    /\ UNCHANGED << S, heap, pc, callVars, ret, snap, rref, calls, raced,
                    itKind, itSet, itElem, itSent, chClosed, stopClosed, cons, recvd >>

ProducerWoken ==
    /\ itPc = "rwait"
    /\ Producer \notin rblocked[itSet]
    /\ itPc' = "range"
    /\ RangeStarts
    /\ UNCHANGED << S, heap, lockVars, pc, callVars, ret, snap, rref, calls, raced,
                    itKind, itSet, itElem, itSent, chClosed, stopClosed, cons, recvd >>

\* A variant in which the loop is left after its first iteration.
RangeDoneEarly(m, visited) ==
    m = {} \/ visited # {}

\* for elem := range m ends when every element of m has been visited.
RangeDone(m, visited) ==
    m \ visited = {}

\* for elem := range set.S: the next element not yet visited, in any order;
\* the loop ends when there is none.
RangeNext ==
    /\ itPc = "range"
    /\ IF RangeDone(heap[itRef], itSent)
       THEN itPc' = "close" /\ UNCHANGED << itElem, itSent >>
       ELSE \E e \in heap[itRef] \ itSent :
              /\ itElem' = e
              /\ itSent' = itSent \cup {e}
              /\ itPc' = "send"
    /\ UNCHANGED << S, heap, lockVars, pc, callVars, ret, snap, rref, calls, raced,
                    itKind, itSet, itRef, itAtLock, chClosed, stopClosed, cons, recvd >>

\* A variant in which the channel has a buffer with room for the element.
ChannelReadyBuffered(c) ==
    TRUE

\* ch := make(chan interface{}) has no buffer: a send completes only when
\* the consumer is receiving.
ChannelReady(c) ==
    c = "receiving"

\* ch <- elem meets the consumer's receive.
Handoff ==
    /\ itPc = "send"
    /\ ChannelReady(cons)
    /\ recvd' = Append(recvd, itElem)
    /\ itPc' = "range"
    /\ UNCHANGED << S, heap, lockVars, pc, callVars, ret, snap, rref, calls, raced,
                    itKind, itSet, itRef, itElem, itSent, itAtLock, chClosed,
                    stopClosed, cons >>

\* A variant in which the loop has no case for the stop channel.
StopReadyNever(kind, stopped) ==
    FALSE

\* Only Iterator's loop selects on stopCh; the case is ready once the stop
\* channel is closed.
StopReady(kind, stopped) ==
    kind = "Iterator" /\ stopped

\* Iterator's select: case <-stopCh: break L
StopObserved ==
    /\ itPc = "send"
    /\ StopReady(itKind, stopClosed)
    /\ itPc' = "close"
    /\ UNCHANGED << S, heap, lockVars, pc, callVars, ret, snap, rref, calls, raced,
                    itKind, itSet, itRef, itElem, itSent, itAtLock, chClosed,
                    stopClosed, cons, recvd >>

\* close(ch)
CloseChannel ==
    /\ itPc = "close"
    /\ chClosed' = TRUE
    /\ itPc' = "runlock"
    /\ UNCHANGED << S, heap, lockVars, pc, callVars, ret, snap, rref, calls, raced,
                    itKind, itSet, itRef, itElem, itSent, itAtLock, stopClosed,
                    cons, recvd >>

\* The producer task: set.l.RUnlock(), and the task ends.
ProducerRUnlock ==
    /\ itPc = "runlock"
    /\ RUnlock(Producer, itSet)
    /\ itPc' = "done"
    /\ itRef' = NoRef
    /\ heap' = [r \in Refs |->
                  IF r \in {S[s] : s \in SetIds} \cup {rref[t] : t \in Threads}
                  THEN heap[r] ELSE {}]
    /\ UNCHANGED << S, pc, callVars, ret, snap, rref, calls, raced,
                    itKind, itSet, itElem, itSent, itAtLock, chClosed, stopClosed,
                    cons, recvd >>

\* The consumer's receive on the closed channel: its loop ends.
ConsumerSeesClose ==
    /\ cons = "receiving"
    /\ chClosed
    /\ cons' = "done"
    /\ UNCHANGED << S, heap, lockVars, pc, callVars, ret, snap, rref, calls, raced,
                    itKind, itSet, itPc, itRef, itElem, itSent, itAtLock, chClosed,
                    stopClosed, recvd >>

\* The consumer stops receiving although the channel is not closed.
Abandon ==
    /\ cons = "receiving"
    /\ ~chClosed
    /\ cons' = "abandoned"
    /\ UNCHANGED << S, heap, lockVars, pc, callVars, ret, snap, rref, calls, raced,
                    itKind, itSet, itPc, itRef, itElem, itSent, itAtLock, chClosed,
                    stopClosed, recvd >>

\* The consumer signals stop: the stop channel is closed.  It may do so while
\* still receiving or after it has stopped receiving.
Stop ==
    /\ itKind = "Iterator"
    /\ cons \in {"receiving", "abandoned"}
    /\ ~stopClosed
    /\ stopClosed' = TRUE
    /\ UNCHANGED << S, heap, lockVars, pc, callVars, ret, snap, rref, calls, raced,
                    itKind, itSet, itPc, itRef, itElem, itSent, itAtLock, chClosed,
                    cons, recvd >>

\* Any step of the producer task.
ProducerStep ==
    \/ ProducerRLock
    \/ ProducerWoken
    \/ RangeNext
    \/ Handoff
    \/ StopObserved
    \/ CloseChannel
    \/ ProducerRUnlock

\* Any step of thread t inside a call it has entered.
Step(t) ==
    \/ LockReceiver(t)
    \/ LockEntered(t)
    \/ RLockReceiver(t)
    \/ RLockReceiverWoken(t)
    \/ RLockOperand(t)
    \/ RLockOperandWoken(t)
    \/ EngineRead(t)
    \/ AddBody(t)
    \/ RemoveBody(t)
    \/ ClearBody(t)
    \/ PopBody(t)
    \/ ReadBody(t)
    \/ BinaryBody(t)
    \/ CloneBody(t)
    \/ UnmarshalBody(t)
    \/ UnlockReceiver(t)
    \/ RUnlockFirst(t)
    \/ RUnlockSecond(t)

\* Thread t has entered a method and not returned from it.
Running(t) ==
    pc[t] # "idle"

\* ------------------------------------------------------------ the start
\* Set objects A and B exist, each with a map of its own; R does not yet.
\* No lock is held, no call is running and no stream is open.
InitWith(T, contents) ==
    /\ S = [s \in SetIds |-> CASE s = "A" -> 1 [] s = "B" -> 2 [] OTHER -> NoRef]
    /\ heap \in {h \in [Refs -> SUBSET Elems] :
                   /\ <<h[1], h[2]>> \in contents
                   /\ \A r \in Refs \ {1, 2} : h[r] = {}}
    /\ readers = [s \in SetIds |-> 0]
    /\ rblocked = [s \in SetIds |-> {}]
    /\ writer = [s \in SetIds |-> NoProc]
    /\ pc = [t \in T |-> "idle"]
    /\ op = [t \in T |-> "none"]
    /\ set = [t \in T |-> "A"]
    /\ o = [t \in T |-> "A"]
    /\ arg = [t \in T |-> 0]
    /\ ret = [t \in T |-> NoResult]
    /\ snap = [t \in T |-> {}]
    /\ rref = [t \in T |-> NoRef]
    /\ calls = [t \in T |-> 0]
    /\ raced = FALSE
    /\ itKind = "none"
    /\ itSet = "A"
    /\ itPc = "none"
    /\ itRef = NoRef
    /\ itElem = 0
    /\ itSent = {}
    /\ itAtLock = {}
    /\ chClosed = FALSE
    /\ stopClosed = FALSE
    /\ cons = "none"
    /\ recvd = << >>

AnyContents ==
    (SUBSET Elems) \X (SUBSET Elems)

AB == {"A", "B"}

\* ------------------------------------------- readers only (binary methods)
\* Threads 1 and 2 call any binary method in either direction; thread 3 adds
\* a third reader, calling Union in either direction.
ReaderThreads == {1, 2, 3}

InitReaders ==
    InitWith(ReaderThreads, {<<{1}, Elems>>})

NextReaders ==
    \/ \E t \in {1, 2} :
        \/ \E s \in AB : \E other \in AB \ {s} : Intersect(t, s, other)
        \/ \E s \in AB : \E other \in AB \ {s} : Difference(t, s, other)
        \/ \E s \in AB : \E other \in AB \ {s} : SymmetricDifference(t, s, other)
        \/ \E s \in AB : \E other \in AB \ {s} : Equal(t, s, other)
        \/ \E s \in AB : \E other \in AB \ {s} : IsSubset(t, s, other)
        \/ \E s \in AB : \E other \in AB \ {s} : IsProperSubset(t, s, other)
        \/ \E s \in AB : \E other \in AB \ {s} : IsSuperset(t, s, other)
        \/ \E s \in AB : \E other \in AB \ {s} : IsProperSuperset(t, s, other)
        \/ \E s \in AB : \E other \in AB \ {s} : CartesianProduct(t, s, other)
    \/ \E t \in ReaderThreads :
        \/ \E s \in AB : \E other \in AB \ {s} : Union(t, s, other)
        \/ RLockReceiver(t)
        \/ RLockOperand(t)
        \/ EngineRead(t)
        \/ BinaryBody(t)
        \/ RUnlockFirst(t)
        \/ RUnlockSecond(t)

SpecReaders ==
    InitReaders /\ [][NextReaders]_vars


\* C1: with only binary read methods running on A and B, in either
\* direction, no thread ever waits for a lock: every thread inside a call can
\* take its next step, so no interleaving deadlocks and every call returns.
C1_ReadersNeverBlock ==
    \A t \in Threads :
        Running(t) => /\ pc[t] \notin {"rwait", "rwait2"}
                      /\ ENABLED Step(t)

\* Two threads in opposite directions, each holding both read locks at once.
C1_Witness ==
    \E t \in Threads, u \in Threads :
        /\ set[t] = "A" /\ o[t] = "B" /\ pc[t] = "body2"
        /\ set[u] = "B" /\ o[u] = "A" /\ pc[u] = "body2"
        /\ readers["A"] >= 2 /\ readers["B"] >= 2

\* ------------------------------- binary readers against writers (mixed load)
\* Thread 1 calls A.Union(B) (or Intersect, Difference, SymmetricDifference,
\* Equal, IsSubset) and thread 2 calls B.Union(A), the other direction;
\* thread 3 mutates A and thread 4 mutates B.
MixedReaders == {1, 2}
MixedWriters == {3, 4}
MixedThreads == {1, 2, 3, 4}

WrittenBy(t) ==
    IF t = 3 THEN "A" ELSE "B"

InitMixed ==
    InitWith(MixedThreads, {<<{1}, Elems>>})

NextMixed ==
    \/ Union(1, "A", "B")
    \/ Intersect(1, "A", "B")
    \/ Difference(1, "A", "B")
    \/ SymmetricDifference(1, "A", "B")
    \/ Equal(1, "A", "B")
    \/ IsSubset(1, "A", "B")
    \/ Union(2, "B", "A")
    \/ \E t \in MixedWriters :
        \/ \E i \in Elems : Add(t, WrittenBy(t), i)
        \/ \E i \in Elems : Remove(t, WrittenBy(t), i)
        \/ Clear(t, WrittenBy(t))
        \/ Pop(t, WrittenBy(t))
    \/ \E t \in MixedThreads :
        \/ LockReceiver(t)
        \/ LockEntered(t)
        \/ RLockReceiver(t)
        \/ RLockReceiverWoken(t)
        \/ RLockOperand(t)
        \/ RLockOperandWoken(t)
        \/ EngineRead(t)
        \/ AddBody(t)
        \/ RemoveBody(t)
        \/ ClearBody(t)
        \/ PopBody(t)
        \/ BinaryBody(t)
        \/ UnlockReceiver(t)
        \/ RUnlockFirst(t)
        \/ RUnlockSecond(t)

SpecMixed ==
    InitMixed /\ [][NextMixed]_vars

\* C2: under mixed read/write load every call eventually returns; so
\* whenever some call is in progress, some thread inside a call can take a
\* step (a state where none can is a deadlock the calls never leave).
C2_EveryCallReturns ==
    (\E t \in Threads : Running(t)) => (\E t \in Threads : ENABLED Step(t))


\* ------------------------------------------- every kind of call on one set
\* Threads 1 and 2 call any method on A (Union with B, in either direction), while
\* a consumer may drain A.Iter().
SpecThreads == {1, 2}

Init ==
    InitWith(SpecThreads, {<<x, Elems>> : x \in {{}, {1}, Elems}})

Next ==
    \/ \E t \in SpecThreads :
        \/ \E i \in Elems : Add(t, "A", i)
        \/ \E i \in Elems : Remove(t, "A", i)
        \/ Clear(t, "A")
        \/ Pop(t, "A")
        \/ \E i \in Elems : Contains(t, "A", {i})
        \/ CardinalityOf(t, "A")
        \/ MarshalJSON(t, "A")
        \/ \E p \in {{}, Elems} : UnmarshalJSON(t, "A", p)
        \/ \E s \in AB : \E other \in AB \ {s} : Union(t, s, other)
        \/ LockReceiver(t)
        \/ LockEntered(t)
        \/ RLockReceiver(t)
        \/ RLockReceiverWoken(t)
        \/ RLockOperand(t)
        \/ RLockOperandWoken(t)
        \/ EngineRead(t)
        \/ AddBody(t)
        \/ RemoveBody(t)
        \/ ClearBody(t)
        \/ PopBody(t)
        \/ ReadBody(t)
        \/ BinaryBody(t)
        \/ UnmarshalBody(t)
        \/ UnlockReceiver(t)
        \/ RUnlockFirst(t)
        \/ RUnlockSecond(t)
    \/ Iter("A")
    \/ ProducerRLock
    \/ ProducerWoken
    \/ RangeNext
    \/ Handoff
    \/ CloseChannel
    \/ ProducerRUnlock
    \/ ConsumerSeesClose

Spec ==
    Init /\ [][Next]_vars

\* Thread t is inside the critical section of Add, Remove, Clear or Pop on s.
InMutation(t, s) ==
    /\ op[t] \in {"Add", "Remove", "Clear", "Pop"}
    /\ set[t] = s
    /\ pc[t] \in {"body", "body2", "unlock"}

\* Thread t is inside a critical section of s, of whatever method.
Inside(t, s) ==
    /\ Running(t)
    /\ (HoldsAsReceiver(t, s) \/ HoldsAsOperand(t, s))

\* C3: while a thread is between Lock and Unlock of Add, Remove, Clear or
\* Pop on a set, no other thread or producer task is inside any critical
\* section, read or write, of that set.
C3_WriterExclusion ==
    \A s \in SetIds : \A t \in Threads :
        InMutation(t, s) =>
            /\ ~ProducerIn(s)
            /\ \A u \in Threads \ {t} : ~Inside(u, s)

\* A writer is inside A's lock while a reader and the producer task, both
\* having called RLock, wait for it.
C3_Witness ==
    \E t \in Threads, u \in Threads :
        /\ InMutation(t, "A")
        /\ pc[t] = "body2"
        /\ pc[u] = "rwait" /\ u \in rblocked["A"]
        /\ itPc = "rwait"

\* C4: no thread mutates a set inside UnmarshalJSON while another thread or
\* task is inside a critical section of the same set.
C4_UnmarshalExclusive ==
    \A t \in Threads :
        (op[t] = "UnmarshalJSON" /\ pc[t] \in {"body", "body2", "unlock"})
            => ~OthersInside(t, set[t])


\* ------------------------------------- N threads adding distinct elements
\* Thread i of 1..NumAdders calls A.Add(i) on the empty set A.  Once all have
\* returned (the barrier), one more thread calls A.Cardinality() and another
\* A.Contains(1, ..., NumAdders).
Adders == 1 .. NumAdders
CardinalityReader == NumAdders + 1
ContainsReader == NumAdders + 2

AllAddsReturned ==
    \A t \in Adders : calls[t] = 1

AddThreads == Adders \cup {CardinalityReader, ContainsReader}

InitAdd ==
    InitWith(AddThreads, {<<{}, {}>>})

NextAdd ==
    \/ \E t \in Adders : Add(t, "A", t)
    \/ AllAddsReturned /\ CardinalityOf(CardinalityReader, "A")
    \/ AllAddsReturned /\ Contains(ContainsReader, "A", Adders)
    \/ \E t \in AddThreads :
        \/ LockReceiver(t)
        \/ LockEntered(t)
        \/ RLockReceiver(t)
        \/ EngineRead(t)
        \/ AddBody(t)
        \/ ReadBody(t)
        \/ UnlockReceiver(t)
        \/ RUnlockFirst(t)

SpecAdd ==
    InitAdd /\ [][NextAdd]_vars

\* C5: once the N concurrent Add calls of pairwise distinct elements have all
\* returned, every Add has returned true, A holds exactly the N elements, and
\* the Cardinality() and Contains(...) calls made after the barrier return N
\* and true.
C5_NoLostUpdates ==
    AllAddsReturned =>
        /\ \A t \in Adders : ret[t] = Returned(TRUE)
        /\ Contents("A") = Adders
        /\ calls[CardinalityReader] = 1 => ret[CardinalityReader] = Returned(NumAdders)
        /\ calls[ContainsReader] = 1 => ret[ContainsReader] = Returned(TRUE)

\* All Adds and both reads after the barrier have returned.
C5_Witness ==
    /\ AllAddsReturned
    /\ calls[CardinalityReader] = 1
    /\ calls[ContainsReader] = 1
    /\ ret[CardinalityReader] = Returned(NumAdders)


\* C6: the result of a binary method is the engine's operation applied to
\* what the receiver and the operand hold at one instant inside the call: in
\* the state its result is computed in, with both read locks still held, the
\* result is the operation on the contents both sets have in that state.
C6_BinaryLinearizable ==
    \A t \in Threads :
        (op[t] \in Binary /\ pc[t] = "unlock") =>
            ret[t] = Returned(UnsafeBinary(Inner(op[t]), Contents(set[t]), Contents(o[t])))

\* A binary call has its result while the writer of A waits for it to leave
\* and the writer of B has already returned.
C6_Witness ==
    \E t \in MixedReaders :
        /\ pc[t] = "unlock"
        /\ pc[3] = "lockwait" /\ writer["A"] = 3
        /\ calls[4] = 1
        /\ Contents("B") # Elems


\* ------------------------------------- results of binary methods and Clone
\* Thread 1 calls a method that returns a new set and keeps it as R; thread 2
\* mutates A or B and thread 3 mutates R, at any time.
FrameThreads == {1, 2, 3}

\* What thread 3 adds to or removes from R: pairs when R is a product.
ArgsOfR ==
    IF op[1] = "CartesianProduct" THEN {<<e, e>> : e \in Elems} ELSE Elems

InitFrame ==
    InitWith(FrameThreads, {<<{1}, Elems>>, <<Elems, {2}>>, <<{}, {1}>>})

NextFrame ==
    \/ \E s \in AB : \E other \in AB \ {s} :
        \/ Union(1, s, other)
        \/ Intersect(1, s, other)
        \/ Difference(1, s, other)
        \/ SymmetricDifference(1, s, other)
        \/ CartesianProduct(1, s, other)
    \/ \E s \in AB : Clone(1, s)
    \/ Publish(1)
    \/ \E s \in AB :
        \/ \E i \in Elems : Add(2, s, i)
        \/ \E i \in Elems : Remove(2, s, i)
        \/ Clear(2, s)
    \/ \E i \in ArgsOfR : Add(3, "R", i)
    \/ \E i \in ArgsOfR : Remove(3, "R", i)
    \/ Clear(3, "R")
    \/ \E t \in FrameThreads :
        \/ LockReceiver(t)
        \/ LockEntered(t)
        \/ RLockReceiver(t)
        \/ RLockReceiverWoken(t)
        \/ RLockOperand(t)
        \/ RLockOperandWoken(t)
        \/ EngineRead(t)
        \/ AddBody(t)
        \/ RemoveBody(t)
        \/ ClearBody(t)
        \/ BinaryBody(t)
        \/ CloneBody(t)
        \/ UnlockReceiver(t)
        \/ RUnlockFirst(t)
        \/ RUnlockSecond(t)

SpecFrame ==
    InitFrame /\ [][NextFrame]_vars

\* No two set objects, and no returned set and set object, share a map.
NoSharedEngine ==
    /\ \A s1 \in SetIds : \A s2 \in SetIds \ {s1} :
         S[s1] # NoRef => S[s1] # S[s2]
    /\ \A t \in Threads : \A s \in SetIds :
         rref[t] # NoRef => rref[t] # S[s]

\* No step of a call that returns a new set changes what A or B holds.
OperandsUnchanged ==
    \A t \in Threads :
        (op'[t] \in ReturnsSet /\ pc'[t] # pc[t]) =>
            /\ heap'[S'["A"]] = heap[S["A"]]
            /\ heap'[S'["B"]] = heap[S["B"]]

\* The write of an Add, Remove or Clear changes no set but its receiver.
MutationStaysLocal ==
    \A t \in Threads :
        (pc[t] = "body2" /\ pc'[t] = "unlock" /\ op[t] \in {"Add", "Remove", "Clear"}) =>
            \A s \in SetIds \ {set[t]} :
                S[s] # NoRef => heap'[S'[s]] = heap[S[s]]

\* C7: Union, Intersect, Difference, SymmetricDifference, CartesianProduct
\* and Clone leave A and B as they were, and the set they return shares no
\* storage with A or B: a later Add, Remove or Clear on the result changes
\* neither A nor B, and one on A or B does not change the result.
C7_OperandsAndResultIndependent ==
    /\ []NoSharedEngine
    /\ [][OperandsUnchanged]_vars
    /\ [][MutationStaysLocal]_vars

\* The result R of A.Union(B) exists, A or B has been mutated since the call
\* began, and R itself has been added to: R now differs from the union.
C7_Witness ==
    /\ op[1] = "Union"
    /\ S["R"] # NoRef
    /\ calls[2] = 1
    /\ calls[3] = 1 /\ op[3] = "Add"
    /\ ret[1] # Returned(Contents("R"))


\* ------------------------------------------------ streams: Iter, Iterator
\* One stream over A, of either kind, with its consumer; thread 1 calls a
\* mutating method on A and thread 2 a reading one, at any time.
StreamWriter == 1

StreamReader == 2

StreamThreads == {1, 2}

InitStream ==
    InitWith(StreamThreads, {<<x, {}>> : x \in SUBSET Elems})

\* A step of thread t inside its call.
StreamStep(t) ==
    \/ LockReceiver(t)
    \/ LockEntered(t)
    \/ RLockReceiver(t)
    \/ RLockReceiverWoken(t)
    \/ EngineRead(t)
    \/ AddBody(t)
    \/ RemoveBody(t)
    \/ ClearBody(t)
    \/ PopBody(t)
    \/ ReadBody(t)
    \/ UnlockReceiver(t)
    \/ RUnlockFirst(t)

NextStream ==
    \/ Iter("A")
    \/ Iterator("A")
    \/ ProducerRLock
    \/ ProducerWoken
    \/ RangeNext
    \/ Handoff
    \/ StopObserved
    \/ CloseChannel
    \/ ProducerRUnlock
    \/ ConsumerSeesClose
    \/ Abandon
    \/ Stop
    \/ \E i \in Elems : Add(StreamWriter, "A", i)
    \/ \E i \in Elems : Remove(StreamWriter, "A", i)
    \/ Clear(StreamWriter, "A")
    \/ Pop(StreamWriter, "A")
    \/ CardinalityOf(StreamReader, "A")
    \/ \E t \in StreamThreads :
        \/ LockReceiver(t)
        \/ LockEntered(t)
        \/ RLockReceiver(t)
        \/ RLockReceiverWoken(t)
        \/ EngineRead(t)
        \/ AddBody(t)
        \/ RemoveBody(t)
        \/ ClearBody(t)
        \/ PopBody(t)
        \/ ReadBody(t)
        \/ UnlockReceiver(t)
        \/ RUnlockFirst(t)

\* Where every goroutine is: each step of a thread, of the producer task or
\* of the consumer changes it.
position ==
    << pc, itPc, cons >>

\* Every goroutine that can run does run: the producer task, a consumer that
\* is receiving when the channel is closed, and each thread inside a call.
\* Nothing obliges a thread to call, or the consumer to stop.
FairStream ==
    /\ WF_position(ProducerStep)
    /\ WF_position(ConsumerSeesClose)
    /\ \A t \in StreamThreads : WF_position(StreamStep(t))

SpecStream ==
    InitStream /\ [][NextStream]_vars /\ FairStream

\* The elements the consumer has received.
Received ==
    {recvd[k] : k \in 1..Len(recvd)}

\* The consumer has received each element A held when the producer took the
\* read lock, once, and nothing else.
ReceivedAllOnce ==
    /\ Received = itAtLock
    /\ Len(recvd) = Cardinality(itAtLock)

\* C8: if the consumer of A.Iter() keeps receiving until the channel is
\* closed, then when the channel is closed it has received every element A
\* held when the producer took the read lock exactly once; the producer does
\* close the channel and release the read lock, and a writer that was waiting
\* for the lock then enters.
C8_IterDrained ==
    /\ []((itKind = "Iter" /\ chClosed) => ReceivedAllOnce)
    /\ (itKind = "Iter") ~> (cons = "abandoned" \/ (chClosed /\ itPc = "done"))
    /\ (itKind = "Iter" /\ pc[StreamWriter] = "lockwait")
         ~> (cons = "abandoned" \/ InWrite(StreamWriter, "A"))

\* The stream over a set of MaxElem elements was drained while the writer
\* waited for the lock, and the writer is now inside.
C8_Witness ==
    /\ itKind = "Iter"
    /\ cons = "done"
    /\ itPc = "done"
    /\ Len(recvd) = MaxElem
    /\ InWrite(StreamWriter, "A")
    /\ ret[StreamReader] # NoResult

\* C9 as stated: once the consumer of A.Iter() on a non-empty set has stopped
\* receiving before the channel was closed, the producer stays blocked on the
\* send: it never closes the channel.  (The set is taken to be non-empty even
\* when the producer took the lock.)
C9_AbandonedNeverCloses ==
    (itKind = "Iter" /\ cons = "abandoned" /\ itAtLock # {}) => ~chClosed

\* The producer of an Iter stream is blocked on ch <- elem and the consumer
\* has stopped receiving.
StuckSend ==
    itKind = "Iter" /\ cons = "abandoned" /\ itPc = "send"

\* C9, amended: if the consumer of A.Iter() stops receiving before the
\* channel is closed, then either it had received every element A held when
\* the producer took the read lock (the producer then closes the channel and
\* releases the lock), or the producer ends up blocked on the channel send
\* and stays there forever holding A's read lock; from then on no Add,
\* Remove, Clear or Pop on A is ever inside its critical section, and a read
\* queued behind a waiting writer stays queued.
C9_AbandonedStarves ==
    /\ [][StuckSend => StuckSend']_vars
    /\ [](StuckSend => (ProducerIn("A") /\ ~InWrite(StreamWriter, "A")))
    /\ [][(StuckSend /\ StreamReader \in rblocked["A"])
            => StreamReader \in rblocked'["A"]]_vars
    /\ (itKind = "Iter" /\ cons = "abandoned")
         ~> (StuckSend \/ (itPc = "done" /\ Received = itAtLock))

\* The producer is blocked on the send with the consumer gone, the writer
\* waits for the lock and the reader is queued behind the writer.
C9_Witness ==
    /\ StuckSend
    /\ pc[StreamWriter] = "lockwait"
    /\ StreamReader \in rblocked["A"]

\* C10: once the consumer of A.Iterator() has closed the stop channel, the
\* producer leaves its loop, closes the element channel and releases A's
\* read lock, whether or not the consumer receives anything more, and a
\* waiting writer then enters.  Without stop the same happens when the
\* consumer keeps receiving: the producer ends once every element has been
\* received.
C10_IteratorTerminates ==
    /\ (itKind = "Iterator" /\ stopClosed) ~> (chClosed /\ itPc = "done")
    /\ (itKind = "Iterator" /\ stopClosed /\ pc[StreamWriter] = "lockwait")
         ~> InWrite(StreamWriter, "A")
    /\ (itKind = "Iterator")
         ~> ((cons = "abandoned" /\ ~stopClosed) \/ (chClosed /\ itPc = "done"))
    /\ []((itKind = "Iterator" /\ itPc = "done" /\ ~stopClosed) => ReceivedAllOnce)

\* The consumer stopped the stream having received nothing of a non-empty
\* set and no longer receives; the producer has ended and the writer that
\* waited is inside.
C10_Witness ==
    /\ itKind = "Iterator"
    /\ stopClosed
    /\ cons = "abandoned"
    /\ itAtLock # {}
    /\ recvd = << >>
    /\ itPc = "done"
    /\ InWrite(StreamWriter, "A")


\* ------------------------------------------------------------------ Each
\* Each(cb): set.l.RLock(); for elem := range set.S { if cb(elem) { break } };
\* set.l.RUnlock().  The callback cb calls method cb of the same set on the
\* element it is given, in the thread that runs Each.
\* pc: ... body -> body2 [-> cb [-> cbwait] -> cbbody -> body2]* -> unlock
Each(t, s, cb) == Call(t, "Each", s, s, cb)

\* for elem := range set.S: snap[t] holds the elements still to visit; the
\* loop ends when there is none, else cb is called on one of them.
EachRange(t) ==
    /\ pc[t] = "body2"
    /\ op[t] = "Each"
    /\ IF snap[t] = {}
       THEN /\ pc' = [pc EXCEPT ![t] = "unlock"]
            /\ snap' = snap
       ELSE \E e \in snap[t] :
              /\ pc' = [pc EXCEPT ![t] = "cb"]
              /\ snap' = [snap EXCEPT ![t] = @ \ {e}]
    /\ UNCHANGED << S, heap, lockVars, callVars, ret, rref, calls, raced, iterVars >>

\* The method the callback calls takes the set's lock, as any call of it
\* does: Lock announces and then waits for the readers to leave, RLock is
\* granted at once or queued behind a writer.
CallbackLock(t) ==
    /\ op[t] = "Each"
    /\ CASE pc[t] = "cb" /\ LockKind(arg[t]) = "W" ->
              /\ Lock(t, set[t])
              /\ pc' = [pc EXCEPT ![t] = "cbwait"]
         [] pc[t] = "cb" /\ LockKind(arg[t]) = "R" ->
              /\ RLock(t, set[t])
              /\ pc' = [pc EXCEPT ![t] =
                          IF RLockImmediate(set[t]) THEN "cbbody" ELSE "cbwait"]
         [] pc[t] = "cbwait" /\ LockKind(arg[t]) = "W" ->
              /\ LockEnter(set[t])
              /\ pc' = [pc EXCEPT ![t] = "cbbody"]
              /\ UNCHANGED lockVars
         [] pc[t] = "cbwait" /\ LockKind(arg[t]) = "R" ->
              /\ t \notin rblocked[set[t]]
              /\ pc' = [pc EXCEPT ![t] = "cbbody"]
              /\ UNCHANGED lockVars
         [] OTHER -> FALSE
    /\ UNCHANGED << S, heap, callVars, ret, snap, rref, calls, raced, iterVars >>

\* The called method runs (Contains reads; Add of the element visited finds
\* it present), releases the lock it took and returns; cb then returns false
\* (the loop goes on) or true (break).
CallbackReturn(t) ==
    /\ op[t] = "Each"
    /\ pc[t] = "cbbody"
    /\ \E stop \in BOOLEAN :
         pc' = [pc EXCEPT ![t] = IF stop THEN "unlock" ELSE "body2"]
    /\ IF LockKind(arg[t]) = "W"
       THEN Unlock(t, set[t])
       ELSE RUnlock(t, set[t])
    /\ UNCHANGED << S, heap, callVars, ret, snap, rref, calls, raced, iterVars >>

\* Thread 1 calls A.Each with a callback that calls A.Contains or A.Add;
\* thread 2 calls Add, Remove or Clear on A at any time.
EachThreads == {1, 2}

InitEach ==
    InitWith(EachThreads, {<<x, {}>> : x \in SUBSET Elems})

NextEach ==
    \/ Each(1, "A", "Contains")
    \/ Each(1, "A", "Add")
    \/ EachRange(1)
    \/ CallbackLock(1)
    \/ CallbackReturn(1)
    \/ \E i \in Elems : Add(2, "A", i)
    \/ \E i \in Elems : Remove(2, "A", i)
    \/ Clear(2, "A")
    \/ \E t \in EachThreads :
        \/ LockReceiver(t)
        \/ LockEntered(t)
        \/ RLockReceiver(t)
        \/ RLockReceiverWoken(t)
        \/ EngineRead(t)
        \/ AddBody(t)
        \/ RemoveBody(t)
        \/ ClearBody(t)
        \/ UnlockReceiver(t)
        \/ RUnlockFirst(t)

SpecEach ==
    InitEach /\ [][NextEach]_vars

\* C11 as stated: an Each whose callback has called back into the same set
\* never leaves its loop (the nested call never returns).
C11_EachCallbackDeadlocks ==
    \A t \in Threads :
        (op[t] = "Each" /\ pc[t] = "unlock") => snap[t] = Contents(set[t])

\* C11, amended: a callback that calls Add, Remove, Clear or Pop on the set
\* of its Each always deadlocks: the nested call never enters and Each never
\* leaves its loop.  A callback that calls a read method deadlocks only if
\* another thread's writer is waiting for the lock when the nested RLock is
\* called: the nested call is then queued forever; otherwise it returns.
C11_EachWriteCallbackDeadlocks ==
    /\ [](\A t \in EachThreads :
            (op[t] = "Each" /\ arg[t] \in {"Add", "Remove", "Clear", "Pop"}) =>
                /\ pc[t] # "cbbody"
                /\ pc[t] = "unlock" => snap[t] = Contents(set[t]))
    /\ [][\A t \in EachThreads :
            (op[t] = "Each" /\ pc[t] = "cbwait"
                /\ (arg[t] \in {"Add", "Remove", "Clear", "Pop"}
                      \/ t \in rblocked[set[t]]))
                => (pc'[t] = "cbwait" /\ readers'[set[t]] > 0)]_vars

\* The callback's Add has announced itself as writer and waits for the read
\* lock its own Each holds; thread 2's call is stuck behind it.
C11_Witness ==
    /\ op[1] = "Each"
    /\ arg[1] = "Add"
    /\ pc[1] = "cbwait"
    /\ writer["A"] = 1
    /\ pc[2] = "lock"


\* ------------------------------------- an operand of another kind of set
\* A variant in which Union asserts the operand's type after set.l.RLock().
AssertsFirstButUnion(name) ==
    name # "Union"

\* o := other.(*threadSafeSet) is the first statement of every binary
\* method: it runs before any lock is taken.
AssertsFirst(name) ==
    TRUE

\* A binary method is called with an operand that is not a *threadSafeSet:
\* the type assertion panics and the call is over.  (Were the assertion to
\* follow set.l.RLock(), the panic would leave that read lock held.)
MismatchedCall(t, name, s) ==
    /\ pc[t] = "idle"
    /\ calls[t] = 0
    /\ S[s] # NoRef
    /\ pc' = [pc EXCEPT ![t] = "panicked"]
    /\ op' = [op EXCEPT ![t] = name]
    /\ set' = [set EXCEPT ![t] = s]
    /\ IF AssertsFirst(name)
       THEN UNCHANGED lockVars
       ELSE /\ RLockImmediate(s)
            /\ readers' = [readers EXCEPT ![s] = @ + 1]
            /\ UNCHANGED << rblocked, writer >>
    /\ UNCHANGED << S, heap, o, arg, ret, snap, rref, calls, raced, iterVars >>

\* Thread 1 calls a binary method of A with an operand of another kind;
\* thread 2 mutates A and thread 3 reads A (alone and with B), at any time.
MismatchThreads == {1, 2, 3}

InitMismatch ==
    InitWith(MismatchThreads, {<<x, Elems>> : x \in SUBSET Elems})

NextMismatch ==
    \/ MismatchedCall(1, "IsSubset", "A")
    \/ MismatchedCall(1, "IsProperSubset", "A")
    \/ MismatchedCall(1, "Union", "A")
    \/ MismatchedCall(1, "Intersect", "A")
    \/ MismatchedCall(1, "Difference", "A")
    \/ MismatchedCall(1, "SymmetricDifference", "A")
    \/ MismatchedCall(1, "Equal", "A")
    \/ MismatchedCall(1, "CartesianProduct", "A")
    \/ \E i \in Elems : Add(2, "A", i)
    \/ \E i \in Elems : Remove(2, "A", i)
    \/ Clear(2, "A")
    \/ Pop(2, "A")
    \/ CardinalityOf(3, "A")
    \/ Union(3, "A", "B")
    \/ \E t \in MismatchThreads :
        \/ LockReceiver(t)
        \/ LockEntered(t)
        \/ RLockReceiver(t)
        \/ RLockReceiverWoken(t)
        \/ RLockOperand(t)
        \/ EngineRead(t)
        \/ AddBody(t)
        \/ RemoveBody(t)
        \/ ClearBody(t)
        \/ PopBody(t)
        \/ ReadBody(t)
        \/ BinaryBody(t)
        \/ UnlockReceiver(t)
        \/ RUnlockFirst(t)
        \/ RUnlockSecond(t)

SpecMismatch ==
    InitMismatch /\ [][NextMismatch]_vars

\* C12: a binary method given an operand that is not a thread-safe set
\* panics before any lock is taken: the panicking step changes no lock and
\* no set; afterwards, once the other calls have returned, the receiver's
\* lock is free, and a call in progress on the receiver can always go on.
C12_MismatchFailsClean ==
    /\ [][\A t \in MismatchThreads :
            (pc[t] # "panicked" /\ pc'[t] = "panicked") =>
                (lockVars' = lockVars /\ S' = S /\ heap' = heap)]_vars
    /\ []((\A t \in MismatchThreads : pc[t] \in {"idle", "panicked"}) =>
            \A s \in SetIds :
                readers[s] = 0 /\ writer[s] = NoProc /\ rblocked[s] = {})
    /\ []((\E t \in MismatchThreads : pc[t] \notin {"idle", "panicked"}) =>
            (\E t \in MismatchThreads : ENABLED Step(t)))

\* A.Union(x) has panicked; the calls of threads 2 and 3 on A have returned
\* and A's lock is free.
C12_Witness ==
    /\ pc[1] = "panicked"
    /\ op[1] = "Union"
    /\ calls[2] = 1
    /\ calls[3] = 1
    /\ readers["A"] = 0


\* ---------------------------------------------- what Add and Pop return
\* C13: the step in which Add(e) writes returns true exactly when e was not
\* in the set just before it and false when it was; afterwards e is in the
\* set, whose cardinality has grown by 1 in the first case and is unchanged
\* in the second.  (A set's contents are the keys of a map: no element is
\* held twice.)
C13_AddReturnsWhetherNew ==
    [][\A t \in SpecThreads :
        (op[t] = "Add" /\ pc[t] = "body2" /\ pc'[t] = "unlock") =>
            LET before == heap[S[set[t]]]
                after == heap'[S'[set[t]]]
            IN  /\ ret'[t] = Returned(arg[t] \notin before)
                /\ arg[t] \in after
                /\ Cardinality(after) =
                     Cardinality(before) + (IF arg[t] \in before THEN 0 ELSE 1)]_vars

\* Both cases have happened: thread 1's Add(1) returned false (1 was there),
\* thread 2's Add(2) returned true, and A holds both.
C13_Witness ==
    /\ op[1] = "Add" /\ arg[1] = 1 /\ calls[1] = 1 /\ ret[1] = Returned(FALSE)
    /\ op[2] = "Add" /\ arg[2] = 2 /\ calls[2] = 1 /\ ret[2] = Returned(TRUE)
    /\ Contents("A") = {1, 2}

\* C14: the step in which Pop writes, on an empty set, returns nil (0) and
\* leaves the set empty; on a non-empty set it returns an element the set
\* held just before and removes exactly that element (so the cardinality
\* drops by 1, Contains of it is false, and no two concurrent Pops return
\* the same element).
C14_PopRemovesWhatItReturns ==
    [][\A t \in SpecThreads :
        (op[t] = "Pop" /\ pc[t] = "body2" /\ pc'[t] = "unlock") =>
            LET before == heap[S[set[t]]]
                after == heap'[S'[set[t]]]
            IN  IF before = {}
                THEN ret'[t] = Returned(0) /\ after = {}
                ELSE \E e \in before :
                       /\ ret'[t] = Returned(e)
                       /\ after = before \ {e}
                       /\ Cardinality(after) = Cardinality(before) - 1
                       /\ ~UnsafeContains(after, {e})]_vars

\* Two threads have popped concurrently from a set of two elements: each got
\* a different element and the set is empty.
C14_Witness ==
    /\ op[1] = "Pop" /\ calls[1] = 1
    /\ op[2] = "Pop" /\ calls[2] = 1
    /\ ret[1] # ret[2]
    /\ ret[1] # Returned(0)
    /\ ret[2] # Returned(0)
    /\ Contents("A") = {}


\* ------------------------------------------------- PowerSet and ToSlice
\* The engine's PowerSet: starting from the set holding the empty set, for
\* each element es every subset built so far is copied with es added.
RECURSIVE UnsafePowerSet(_)
UnsafePowerSet(x) ==
    IF x = {}
    THEN {{}}
    ELSE LET es == CHOOSE e \in x : TRUE
             powSet == UnsafePowerSet(x \ {es})
         IN  powSet \cup {p \cup {es} : p \in powSet}

\* A variant in which every iteration adds the same wrapper again.
WrapSubsetsReused(P) ==
    {CHOOSE p \in P : TRUE}

\* for subset := range unsafePowerSet.Iter() { ret.Add(&threadSafeSet{S:
\* *unsafeSubset}) }: each subset becomes a set object of its own in ret.
WrapSubsets(P) ==
    {p : p \in P}

PowerSet(t, s) == Call(t, "PowerSet", s, s, 0)

\* unsafePowerSet := set.S.PowerSet(), and the loop that fills ret.
PowerSetBody(t) ==
    /\ pc[t] = "body2"
    /\ op[t] = "PowerSet"
    /\ pc' = [pc EXCEPT ![t] = "unlock"]
    /\ ret' = [ret EXCEPT ![t] = Returned(WrapSubsets(UnsafePowerSet(snap[t])))]
    /\ UNCHANGED << S, heap, lockVars, callVars, snap, rref, calls, raced, iterVars >>

\* ToSlice(): keys := make([]interface{}, 0, set.Cardinality()) comes first,
\* a call of its own that takes and releases the read lock.
\* pc: card [-> cardwait] -> cardheld -> lock -> ... as any reading method
ToSlice(t, s) ==
    /\ pc[t] = "idle"
    /\ calls[t] = 0
    /\ S[s] # NoRef
    /\ pc' = [pc EXCEPT ![t] = "card"]
    /\ op' = [op EXCEPT ![t] = "ToSlice"]
    /\ set' = [set EXCEPT ![t] = s]
    /\ o' = [o EXCEPT ![t] = s]
    /\ UNCHANGED << S, heap, lockVars, arg, ret, snap, rref, calls, raced, iterVars >>

\* set.Cardinality() inside ToSlice: RLock, len(set.S), RUnlock.
ToSliceCardinality(t) ==
    /\ op[t] = "ToSlice"
    /\ CASE pc[t] = "card" ->
              /\ RLock(t, set[t])
              /\ pc' = [pc EXCEPT ![t] =
                          IF RLockImmediate(set[t]) THEN "cardheld" ELSE "cardwait"]
         [] pc[t] = "cardwait" ->
              /\ t \notin rblocked[set[t]]
              /\ pc' = [pc EXCEPT ![t] = "cardheld"]
              /\ UNCHANGED lockVars
         [] pc[t] = "cardheld" ->
              /\ RUnlock(t, set[t])
              /\ pc' = [pc EXCEPT ![t] = "lock"]
         [] OTHER -> FALSE
    /\ UNCHANGED << S, heap, callVars, ret, snap, rref, calls, raced, iterVars >>

\* for elem := range set.S { keys = append(keys, elem) }: the elements in
\* some order.
ToSliceBody(t) ==
    /\ pc[t] = "body2"
    /\ op[t] = "ToSlice"
    /\ pc' = [pc EXCEPT ![t] = "unlock"]
    /\ \E keys \in [1..Cardinality(snap[t]) -> snap[t]] :
         /\ \A j, k \in DOMAIN keys : j # k => keys[j] # keys[k]
         /\ ret' = [ret EXCEPT ![t] = Returned(keys)]
    /\ UNCHANGED << S, heap, lockVars, callVars, snap, rref, calls, raced, iterVars >>

\* ----------------------------------------------- a client, call by call
\* The caller keeps the set a call returned as set object s.
PublishAs(t, s) ==
    /\ pc[t] = "idle"
    /\ rref[t] # NoRef
    /\ S[s] = NoRef
    /\ S' = [S EXCEPT ![s] = rref[t]]
    /\ rref' = [rref EXCEPT ![t] = NoRef]
    /\ UNCHANGED << heap, lockVars, pc, callVars, ret, snap, calls, raced, iterVars >>


\* Thread 1 makes one call on A and B and keeps a returned set of elements
\* as R (a Cartesian product, a set of pairs, is not kept).  When
\* that was X.Union(Y), X.Intersect(Y) or X.Difference(Y), thread 2 may make
\* the same call with X and Y exchanged and keep the result as Q; it may
\* also read R.  Thread 3 makes one call on R.
ClientThreads == {1, 2, 3}

InitClient ==
    InitWith(ClientThreads, AnyContents)

NextClient ==
    \/ \E s \in AB : \E other \in AB :
        \/ Union(1, s, other)
        \/ Intersect(1, s, other)
        \/ Difference(1, s, other)
        \/ SymmetricDifference(1, s, other)
        \/ Equal(1, s, other)
        \/ IsSubset(1, s, other)
        \/ IsProperSubset(1, s, other)
        \/ CartesianProduct(1, s, other)
    \/ IsSuperset(1, "A", "B")
    \/ IsProperSuperset(1, "A", "B")
    \/ \E s \in AB :
        \/ PowerSet(1, s)
        \/ ToSlice(1, s)
        \/ Clone(1, s)
        \/ MarshalJSON(1, s)
        \/ Each(1, s, "Contains")
        \/ \E e \in Elems : Contains(1, s, {e})
        \/ \E p \in SUBSET Elems : UnmarshalJSON(1, s, p)
    \/ op[1] # "CartesianProduct" /\ Publish(1)
    \/ /\ calls[1] = 1
       /\ S["R"] # NoRef
       /\ op[1] \in {"Union", "Intersect", "Difference"}
       /\ Call(2, op[1], o[1], set[1], 0)
    \/ PublishAs(2, "Q")
    \/ CardinalityOf(2, "R")
    \/ Union(2, "A", "R")
    \/ Equal(3, "R", "Q")
    \/ \E s \in AB : Equal(3, "R", s)
    \/ CardinalityOf(3, "R")
    \/ \E i \in Elems : Add(3, "R", i)
    \/ \E i \in Elems : Remove(3, "R", i)
    \/ Clear(3, "R")
    \/ Pop(3, "R")
    \/ \E t \in ClientThreads :
        \/ LockReceiver(t)
        \/ LockEntered(t)
        \/ RLockReceiver(t)
        \/ RLockReceiverWoken(t)
        \/ RLockOperand(t)
        \/ RLockOperandWoken(t)
        \/ EngineRead(t)
        \/ AddBody(t)
        \/ RemoveBody(t)
        \/ ClearBody(t)
        \/ PopBody(t)
        \/ ReadBody(t)
        \/ BinaryBody(t)
        \/ CloneBody(t)
        \/ PowerSetBody(t)
        \/ ToSliceCardinality(t)
        \/ ToSliceBody(t)
        \/ UnmarshalBody(t)
        \/ EachRange(t)
        \/ CallbackLock(t)
        \/ CallbackReturn(t)
        \/ UnlockReceiver(t)
        \/ RUnlockFirst(t)
        \/ RUnlockSecond(t)

SpecClient ==
    InitClient /\ [][NextClient]_vars


\* C15: for all contents of A and B, when X.Union(Y), X.Intersect(Y),
\* X.Difference(Y) or X.SymmetricDifference(Y) is about to release its locks,
\* the set it returns holds exactly the elements in X or Y, in both, in X and
\* not in Y, in exactly one of X and Y.
C15_SetAlgebra ==
    \A t \in ClientThreads :
        (pc[t] = "unlock"
            /\ op[t] \in {"Union", "Intersect", "Difference", "SymmetricDifference"}) =>
            LET a == Contents(set[t])
                b == Contents(o[t])
                r == heap[rref[t]]
            IN  /\ ret[t] = Returned(r)
                /\ op[t] = "Union" =>
                     r = {e \in Elems : e \in a \/ e \in b}
                /\ op[t] = "Intersect" =>
                     r = {e \in Elems : e \in a /\ e \in b}
                /\ op[t] = "Difference" =>
                     r = {e \in Elems : e \in a /\ e \notin b}
                /\ op[t] = "SymmetricDifference" =>
                     r = {e \in Elems : (e \in a) # (e \in b)}

\* A = {1}, B = {2}: A.Difference(B) is about to return {1}.
C15_Witness ==
    /\ pc[1] = "unlock"
    /\ op[1] = "Difference"
    /\ set[1] = "A" /\ o[1] = "B"
    /\ Contents("A") = {1}
    /\ Contents("B") = {2}
    /\ ret[1] = Returned({1})

\* Thread 2's call is thread 1's with receiver and operand exchanged.
Exchanged ==
    op[2] = op[1] /\ set[2] = o[1] /\ o[2] = set[1]

\* C16: with R = X.Union(Y) and Q = Y.Union(X), R.Equal(Q) is true, and so
\* for Intersect; with R = X.Union(X) or X.Intersect(X), R.Equal(X) is true;
\* with R = X.Difference(X), R.Cardinality() is 0.
C16_AlgebraicLaws ==
    /\ (pc[3] = "unlock" /\ op[3] = "Equal" /\ o[3] = "Q"
          /\ op[1] \in {"Union", "Intersect"} /\ Exchanged)
         => ret[3] = Returned(TRUE)
    /\ (pc[3] = "unlock" /\ op[3] = "Equal" /\ o[3] = set[1]
          /\ op[1] \in {"Union", "Intersect"} /\ set[1] = o[1])
         => ret[3] = Returned(TRUE)
    /\ (pc[3] = "unlock" /\ op[3] = "Cardinality"
          /\ op[1] = "Difference" /\ set[1] = o[1])
         => ret[3] = Returned(0)

\* A = {1}, B = {1, 2}: R = A.Union(B), Q = B.Union(A), and R.Equal(Q) is
\* about to return true.
C16_Witness ==
    /\ pc[3] = "unlock" /\ op[3] = "Equal" /\ o[3] = "Q"
    /\ op[1] = "Union" /\ set[1] = "A" /\ o[1] = "B"
    /\ Exchanged
    /\ Contents("A") = {1}
    /\ Contents("B") = {1, 2}
    /\ ret[3] = Returned(TRUE)

\* C17: X.IsSubset(Y) is true iff every element of X is in Y;
\* X.IsProperSubset(Y) iff moreover the cardinalities differ; A.IsSuperset(B)
\* and A.IsProperSuperset(B) run as B.IsSubset(A) and B.IsProperSubset(A):
\* B's lock is taken first, then A's, and the result is that of the subset
\* test of B in A.
C17_SubsetFamily ==
    /\ (pc[1] = "unlock" /\ op[1] = "IsSubset") =>
         ret[1] = Returned(\A e \in Contents(set[1]) : e \in Contents(o[1]))
    /\ (pc[1] = "unlock" /\ op[1] = "IsProperSubset") =>
         ret[1] = Returned((\A e \in Contents(set[1]) : e \in Contents(o[1]))
                            /\ Cardinality(Contents(set[1])) # Cardinality(Contents(o[1])))
    /\ (pc[1] = "unlock" /\ op[1] = "IsSuperset") =>
         ret[1] = Returned(\A e \in Contents("B") : e \in Contents("A"))
    /\ (pc[1] = "unlock" /\ op[1] = "IsProperSuperset") =>
         ret[1] = Returned((\A e \in Contents("B") : e \in Contents("A"))
                            /\ Cardinality(Contents("B")) # Cardinality(Contents("A")))
    /\ (pc[1] = "lock2" /\ op[1] \in {"IsSuperset", "IsProperSuperset"}) =>
         (readers["B"] = 1 /\ readers["A"] = 0)

\* A = {1, 2}, B = {1}: A.IsProperSuperset(B) is about to return true.
C17_Witness ==
    /\ pc[1] = "unlock"
    /\ op[1] = "IsProperSuperset"
    /\ Contents("A") = {1, 2}
    /\ Contents("B") = {1}
    /\ ret[1] = Returned(TRUE)

\* The members of the power set a PowerSet call is about to return.
PowerSetMembers ==
    ret[1][1]

\* C18: X.PowerSet() returns a set of 2^n members where n is the number of
\* elements of X, among them an empty set and a set with X's elements (the
\* members are the subsets themselves, each a value of its own), and no step
\* of the call changes A or B.
C18_PowerSet ==
    /\ []((pc[1] = "unlock" /\ op[1] = "PowerSet") =>
            /\ Cardinality(PowerSetMembers) = 2 ^ Cardinality(Contents(set[1]))
            /\ {} \in PowerSetMembers
            /\ Contents(set[1]) \in PowerSetMembers)
    /\ [][(op'[1] = "PowerSet" /\ pc'[1] # pc[1]) =>
            \A s \in AB : heap'[S'[s]] = heap[S[s]]]_vars

\* A = {1, 2}: A.PowerSet() is about to return four sets.
C18_Witness ==
    /\ pc[1] = "unlock"
    /\ op[1] = "PowerSet"
    /\ set[1] = "A"
    /\ Contents("A") = {1, 2}
    /\ Cardinality(PowerSetMembers) = 4

SelfThreads == {1, 2}

InitSelf ==
    InitWith(SelfThreads, AnyContents)

NextSelf ==
    \/ \E other \in AB :
        \/ Union(1, "A", other)
        \/ Intersect(1, "A", other)
        \/ Equal(1, "A", other)
        \/ IsSubset(1, "A", other)
    \/ \E s \in AB :
        \/ \E i \in Elems : Add(2, s, i)
        \/ \E i \in Elems : Remove(2, s, i)
        \/ Clear(2, s)
        \/ Pop(2, s)
    \/ \E t \in SelfThreads :
        \/ LockReceiver(t)
        \/ LockEntered(t)
        \/ RLockReceiver(t)
        \/ RLockReceiverWoken(t)
        \/ RLockOperand(t)
        \/ RLockOperandWoken(t)
        \/ EngineRead(t)
        \/ AddBody(t)
        \/ RemoveBody(t)
        \/ ClearBody(t)
        \/ PopBody(t)
        \/ BinaryBody(t)
        \/ UnlockReceiver(t)
        \/ RUnlockFirst(t)
        \/ RUnlockSecond(t)

SpecSelf ==
    InitSelf /\ [][NextSelf]_vars

\* C20: a binary call whose operand is its receiver always returns, also
\* when another thread writes the set between the two RLock calls; so
\* whenever such a call is in progress, some thread inside a call can take a
\* step (a state where none can is a deadlock the call never leaves).
C20_SelfOperandReturns ==
    \A t \in Threads :
        (Running(t) /\ op[t] \in Binary /\ set[t] = o[t]) =>
            \E u \in Threads : ENABLED Step(u)

====
